---- MODULE Spec2Model ----
(***************************************************************************)
(* Model of backend/app/db.py: the SQLite metadata store coupled with the  *)
(* FAISS IndexIDMap vector index, the vector_id allocator cursor and the   *)
(* index file.  Handlers are operators over a store record                 *)
(*   [conn, db_file, index, index_file, _next_id]                          *)
(* and return [s |-> store after the call, err |-> exception raised].      *)
(*                                                                         *)
(* conn       the tables as the module's sqlite3 connection sees them,     *)
(*            uncommitted statements included (the connection runs with    *)
(*            the default isolation level: DML opens a transaction that    *)
(*            stays open until conn.commit()).                             *)
(* db_file    the committed tables (what a new connection would read).     *)
(* index      the in-memory IndexIDMap: a sequence of entries, because     *)
(*            add_with_ids appends and does not reject an id twice.        *)
(* index_file the file at INDEX_PATH, NoFile before the first save_index.  *)
(* last       the call just made; result: what the last read call returned. *)
(* issued     history: the vector_ids committed by inserts.                 *)
(* inserted   history: the resume_ids inserted and not deleted afterwards.  *)
(* calls      per thread, the insert_resume call it is executing: the line  *)
(*            it is about to run, its arguments and its local vec_ids.      *)
(* mongo      the resumes collection of db_mongo.py: _id -> document.       *)
(* gridfs     the ids of the files in the GridFS bucket "resume_files".     *)
(* qdrant     the points of the Qdrant collection, in insertion order.      *)
(* request    the /upload or /upsert request that is waiting for its        *)
(*            embeddings.                                                   *)
(* embedding  the frame of the running embed_texts call.                    *)
(* response   what the last finished request or call answered, nothing     *)
(*            while a request is waiting.                                   *)
(***************************************************************************)
EXTENDS Integers, Sequences, FiniteSets, TLC

VARIABLES conn, db_file, index, index_file, _next_id, last, issued, faults,
          result, inserted, calls,
          mongo, gridfs, qdrant, request, embedding, response

\* The state of db.py (the SQLite + FAISS store) with its history.
db_vars == <<conn, db_file, index, index_file, _next_id, last, issued, faults,
             result, inserted, calls>>

\* The state of the HTTP service: db_mongo.py, qdrant_db.py, embedder.py and
\* the endpoints of main.py.
api_vars == <<mongo, gridfs, qdrant, request, embedding, response>>

vars == <<conn, db_file, index, index_file, _next_id, last, issued, faults,
          result, inserted, calls,
          mongo, gridfs, qdrant, request, embedding, response>>

---------------------------------------------------------------------------
(* Bounds of the model. *)

\* Insert is enabled while the cursor after it stays within MaxId.
MaxId == 5
\* Insert is enabled while the index after it holds at most MaxIndex entries.
MaxIndex == 5
\* Insert is enabled while the version of the row it upserts is below MaxVersion.
MaxVersion == 2
\* The environment interferes at most MaxFaults times (a failed write of the
\* index file, a crash, a restart).
MaxFaults == 1

\* config.VECTOR_DIM, scaled down from 1536.
VECTOR_DIM == 2

---------------------------------------------------------------------------
(* Inputs. *)

IDS == {"D1", "D2"}

\* Chunk texts of an uploaded document; an insert passes the first j of them.
Corpus == <<"t1", "t2", "t3">>

ChunkLists == {SubSeq(Corpus, 1, j) : j \in 0..Len(Corpus)}

\* The embedding the caller computed for a chunk text.
Embed(t) ==
    CASE t = "t1" -> <<3, 4>>
      [] t = "t2" -> <<0, 5>>
      [] OTHER    -> <<0, 0>>

\* A vector of the wrong dimension (VECTOR_DIM + 1).
BadVector == <<1, 0, 0>>

\* One embedding per chunk text, as the caller computes them.
Embeddings(chunks) == [i \in 1..Len(chunks) |-> Embed(chunks[i])]

BadEmbeddings(chunks) == [i \in 1..Len(chunks) |-> BadVector]

\* The embedding lists a caller may pass with `chunks`: one vector per chunk,
\* one vector too few or too many, or vectors of the wrong dimension.
EmbeddingsFor(chunks) ==
    LET good == Embeddings(chunks)
    IN  {good, BadEmbeddings(chunks), Append(good, Embed("t1"))}
        \cup (IF chunks = <<>> THEN {} ELSE {Tail(good)})

\* The (chunks, embeddings) arguments of an insert.
Inputs ==
    UNION {{[chunks |-> c, embeddings |-> e] : e \in EmbeddingsFor(c)} :
           c \in ChunkLists}

\* Well-formed arguments of at most two chunks.
SmallValidInputs ==
    {[chunks |-> c, embeddings |-> Embeddings(c)] :
     c \in {d \in ChunkLists : Len(d) \in {1, 2}}}

\* The metadata part of insert's `meta` argument (resume_id is added by Meta).
Profiles ==
    { [name |-> "Ann", email |-> "ann@x.org", skills |-> <<"python", "sql">>,
       years_experience |-> 3],
      [name |-> "Bob", email |-> "bob@x.org", skills |-> <<"go">>,
       years_experience |-> 7] }

Meta(rid, p) ==
    [resume_id |-> rid, name |-> p.name, email |-> p.email,
     skills |-> p.skills, years_experience |-> p.years_experience]

\* The `meta` arguments the callers pass: D1 is uploaded under either profile,
\* D2 under one.
Metas ==
    {Meta("D1", p) : p \in Profiles}
    \cup {Meta("D2", p) : p \in {q \in Profiles : q.name = "Bob"}}

\* D1 and D2 under one profile each.
FewMetas ==
    {Meta("D1", p) : p \in {q \in Profiles : q.name = "Ann"}}
    \cup {Meta("D2", p) : p \in {q \in Profiles : q.name = "Bob"}}

\* What the environment does to a call: nothing, faiss.write_index raising,
\* or the process dying (and being started again) before conn.commit() or
\* between conn.commit() and save_index().
NoFaults == {"none"}
Faults ==
    {"none", "write_index_fails", "crash_before_commit", "crash_before_save"}

\* The query_vec arguments of search_vectors: `type` is the Python type of
\* the argument, `ndim` 2 when it is a 2-D ndarray or a list whose first
\* element is a list, `value` its rows (ndim 2) or its numbers (ndim 1).
QueryVec(type, ndim, value) == [type |-> type, ndim |-> ndim, value |-> value]

QueryVecs ==
    { QueryVec("list", 1, <<3, 4>>),
      QueryVec("list", 1, <<0, 0>>),
      QueryVec("ndarray", 1, <<0, 5>>),
      QueryVec("list", 2, << <<3, 4>>, <<0, 5>> >>),
      QueryVec("ndarray", 2, << <<0, 5>>, <<3, 4>> >>),
      QueryVec("list", 1, BadVector),
      QueryVec("list", 1, <<>>),
      QueryVec("tuple", 1, <<3, 4>>) }

\* The top_k arguments of search_vectors.
TopKs == {-1, 0, 1, 2, 10}

\* What index.search does with this call: it answers, ranking equal scores
\* in the order the vectors were added or in the reverse order (the engine
\* does not define the order of ties), or it raises.
Engines == {"ties_oldest_first", "ties_newest_first", "raises"}

SearchCall(query_vec, top_k, engine) ==
    [query_vec |-> query_vec, top_k |-> top_k, engine |-> engine]

\* The search calls the callers make between two writes.
SearchCalls ==
    { SearchCall(QueryVec("ndarray", 1, <<0, 5>>), 2, "ties_oldest_first"),
      SearchCall(QueryVec("list", 1, <<3, 4>>), 10, "ties_newest_first"),
      SearchCall(QueryVec("list", 2, << <<3, 4>>, <<0, 5>> >>), 1,
                 "ties_oldest_first"),
      SearchCall(QueryVec("ndarray", 2, << <<0, 5>>, <<3, 4>> >>), -1,
                 "ties_oldest_first"),
      SearchCall(QueryVec("list", 1, <<3, 4>>), 1, "raises"),
      SearchCall(QueryVec("list", 1, <<0, 0>>), 0, "ties_newest_first"),
      SearchCall(QueryVec("list", 1, <<0, 0>>), 5, "ties_oldest_first"),
      SearchCall(QueryVec("list", 1, BadVector), 2, "ties_oldest_first"),
      SearchCall(QueryVec("list", 1, <<>>), 1, "ties_oldest_first") }

---------------------------------------------------------------------------
(* Helpers. *)

\* The value of resumes[r] when the table has no row for r, and Python's None.
NoRow == [version |-> 0]
None == [none |-> TRUE]
NoFile == [exists |-> FALSE]

\* The value of `result` when the last call was not a read.
NoResult == [op |-> "none"]

\* The threads of the process: the one that imported the module, and so
\* opened the connection (line 53), and another one that calls into it.
Threads == {"main", "worker"}

ConnThread == "main"

\* mongo[r] when the collection has no document with _id r.
NoDoc == [found |-> FALSE]

\* No request is waiting, no embed_texts call is running, nothing was
\* answered yet.
NoRequest == [endpoint |-> "none"]

NoEmbedding == [pc |-> "idle"]

NoResponse == [endpoint |-> "none"]

\* A thread that is not inside insert_resume.
IdleCall ==
    [pc |-> "idle", meta |-> None, chunks |-> <<>>, embeddings |-> <<>>,
     vec_ids |-> <<>>, existed |-> FALSE]

Range(sq) == {sq[i] : i \in 1..Len(sq)}

Max(S) == CHOOSE m \in S : \A x \in S : x <= m

Min(a, b) == IF a <= b THEN a ELSE b

RECURSIVE SqrtFrom(_, _)
SqrtFrom(n, r) == IF (r + 1) * (r + 1) > n THEN r ELSE SqrtFrom(n, r + 1)

RECURSIVE SumSq(_)
SumSq(v) == IF v = <<>> THEN 0 ELSE Head(v) * Head(v) + SumSq(Tail(v))

\* np.linalg.norm of one row; the inputs have integer norms.
Norm(v) == SqrtFrom(SumSq(v), 0)

\* json.dumps of a list of strings, as the list of its tokens.
RECURSIVE json_items(_)
json_items(skills) ==
    IF skills = <<>> THEN <<>>
    ELSE <<"\"", Head(skills), "\"">>
         \o (IF Tail(skills) = <<>> THEN <<>> ELSE <<",", " ">>)
         \o json_items(Tail(skills))

json_dumps(skills) == <<"[">> \o json_items(skills) \o <<"]">>

\* json.loads of such a token list: the strings between the quotes.
RECURSIVE json_strings(_)
json_strings(tokens) ==
    IF Len(tokens) < 3 THEN <<>>
    ELSE IF Head(tokens) = "\""
         THEN <<tokens[2]>> \o json_strings(SubSeq(tokens, 4, Len(tokens)))
         ELSE json_strings(Tail(tokens))

json_loads(tokens) == json_strings(tokens)

\* The row divided by its norm with no epsilon: 0 / 0 for a zero row.
normalize_row_no_epsilon(v) == [num |-> v, den |-> Norm(v)]

\* The row as it is, not divided by its norm.
normalize_row_raw(v) == [num |-> v, den |-> 1]

\* _l2_normalize of one row: arr / (norm + 1e-10), as the exact fraction
\* num / den.  For a norm >= 1 the epsilon is below float32 resolution; a
\* zero row is 0 / 1e-10 = 0.
normalize_row(v) ==
    [num |-> v, den |-> IF Norm(v) = 0 THEN 1 ELSE Norm(v)]

_l2_normalize(vectors) ==
    [i \in 1..Len(vectors) |-> normalize_row(vectors[i])]

\* A cursor that counts the chunk rows.
_next_free_vector_id_count(chunks) == Cardinality(chunks)

\* SELECT COALESCE(MAX(vector_id), -1) FROM chunks, plus one.
_next_free_vector_id(chunks) ==
    (IF chunks = {} THEN -1 ELSE Max({c.vector_id : c \in chunks})) + 1

\* faiss.write_index of an IndexIDMap over an IndexFlatIP: the dimension,
\* the count, the inner index's vectors as one flat array of components
\* (float32 values, here the fractions num / den) and the id of each
\* position.  `by` is history only.
write_index(idx) ==
    LET d == VECTOR_DIM
    IN  [exists |-> TRUE,
         fourcc |-> "IxMp",
         d      |-> d,
         ntotal |-> Len(idx),
         codes  |-> [k \in 1..(Len(idx) * d) |->
                        [num |-> idx[((k - 1) \div d) + 1].vec.num[((k - 1) % d) + 1],
                         den |-> idx[((k - 1) \div d) + 1].vec.den]],
         id_map |-> [i \in 1..Len(idx) |-> idx[i].id],
         by     |-> [i \in 1..Len(idx) |-> idx[i].by]]

\* A reader that takes the file for a bare flat index: the positions become
\* the ids.
read_index_positions(file) ==
    [i \in 1..file.ntotal |->
        [id  |-> i - 1,
         vec |-> [num |-> [j \in 1..file.d |-> file.codes[(i - 1) * file.d + j].num],
                  den |-> file.codes[(i - 1) * file.d + 1].den],
         by  |-> file.by[i]]]

\* faiss.read_index: position i of the index gets id_map[i] and the d
\* components from offset (i - 1) * d of the flat array.
read_index(file) ==
    [i \in 1..file.ntotal |->
        [id  |-> file.id_map[i],
         vec |-> [num |-> [j \in 1..file.d |-> file.codes[(i - 1) * file.d + j].num],
                  den |-> file.codes[(i - 1) * file.d + 1].den],
         by  |-> file.by[i]]]

\* _init_index: the index read from INDEX_PATH, or a new empty one.  A file
\* written by save_index holds an IndexIDMap, so line 37 never wraps it.
_init_index(file) == IF file.exists THEN read_index(file) ELSE <<>>

\* Module initialisation (lines 51-73) against the files on disk: the index
\* is loaded, a new connection sees the committed tables, the cursor is
\* recomputed from the chunks table.
startup(s) ==
    [conn       |-> s.db_file,
     db_file    |-> s.db_file,
     index      |-> _init_index(s.index_file),
     index_file |-> s.index_file,
     _next_id   |-> _next_free_vector_id(s.db_file.chunks)]

\* save_index: faiss.write_index(index, INDEX_PATH).
save_index(s) ==
    [s EXCEPT !.index_file = write_index(s.index)]

\* conn.commit().
commit(s) == [s EXCEPT !.db_file = s.conn]

---------------------------------------------------------------------------
(* The store and the outcomes of a call. *)

Store ==
    [conn |-> conn, db_file |-> db_file, index |-> index,
     index_file |-> index_file, _next_id |-> _next_id]

Return(s) == [s |-> s, err |-> "none"]

\* A call that returns `value`.
ReturnValue(s, value) == [s |-> s, err |-> "none", value |-> value]

Raise(s, e) == [s |-> s, err |-> e]

\* The process dies: memory and the open transaction are lost, and the
\* module is initialised again from the files.
Crash(s) == [s |-> startup(s), err |-> "crash"]

---------------------------------------------------------------------------
(* insert_resume *)

\* Mutant: on conflict the version is kept.
upsert_resume_row_same_version(resumes, meta) ==
    LET old == resumes[meta.resume_id]
    IN  [resumes EXCEPT ![meta.resume_id] =
            [name             |-> meta.name,
             email            |-> meta.email,
             skills           |-> json_dumps(meta.skills),
             years_experience |-> meta.years_experience,
             version          |-> IF old = NoRow THEN 1 ELSE old.version]]

\* INSERT INTO resumes ... ON CONFLICT(resume_id) DO UPDATE SET ...
upsert_resume_row(resumes, meta) ==
    LET old == resumes[meta.resume_id]
    IN  [resumes EXCEPT ![meta.resume_id] =
            [name             |-> meta.name,
             email            |-> meta.email,
             skills           |-> json_dumps(meta.skills),
             years_experience |-> meta.years_experience,
             version          |-> IF old = NoRow THEN 1 ELSE old.version + 1]]

\* np.arange(_next_id, _next_id + len(chunks))
arange(lo, hi) == [i \in 1..(hi - lo) |-> lo + i - 1]

\* Mutant: the vectors an earlier insert of the same resume added are dropped.
add_with_ids_replacing(idx, vectors, ids, by) ==
    LET other(e) == e.by # by
    IN  SelectSeq(idx, other)
        \o [i \in 1..Len(ids) |-> [id |-> ids[i], vec |-> vectors[i], by |-> by]]

\* index.add_with_ids(vectors, ids): the rows are appended; an id already in
\* the index is not rejected.  `by` is history only: the resume_id of the
\* insert that added the entry.
add_with_ids(idx, vectors, ids, by) ==
    idx \o [i \in 1..Len(ids) |-> [id |-> ids[i], vec |-> vectors[i], by |-> by]]

\* conn.executemany("INSERT INTO chunks ..."): one INSERT per (vector_id,
\* text) pair of zip(vec_ids, chunks), stopping at the first vector_id that
\* is already a primary key; the rows inserted before it stay in the
\* transaction.
RECURSIVE executemany_chunks(_, _, _, _)
executemany_chunks(chunks, vec_ids, resume_id, texts) ==
    IF vec_ids = <<>> \/ texts = <<>> THEN [chunks |-> chunks, ok |-> TRUE]
    ELSE IF \E c \in chunks : c.vector_id = Head(vec_ids)
         THEN [chunks |-> chunks, ok |-> FALSE]
         ELSE executemany_chunks(
                  chunks \cup {[vector_id |-> Head(vec_ids),
                                resume_id |-> resume_id,
                                text      |-> Head(texts)]},
                  Tail(vec_ids), resume_id, Tail(texts))

\* Mutant: the cursor is advanced by one, whatever the number of chunks.
insert_finish_by_one(s, n, fault) ==
    LET s4 == [s EXCEPT !._next_id = @ + 1]
        s5 == commit(s4)
    IN  CASE fault = "crash_before_commit" -> Crash(s4)
          [] fault = "crash_before_save"   -> Crash(s5)
          [] fault = "write_index_fails"   -> Raise(s5, "RuntimeError")
          [] OTHER                         -> Return(save_index(s5))

\* Mutant: a failed write of the index file leaves the transaction open.
insert_finish_uncommitted(s, n, fault) ==
    LET s4 == [s EXCEPT !._next_id = @ + n]
        s5 == commit(s4)
    IN  CASE fault = "crash_before_commit" -> Crash(s4)
          [] fault = "crash_before_save"   -> Crash(s5)
          [] fault = "write_index_fails"   -> Raise(s4, "RuntimeError")
          [] OTHER                         -> Return(save_index(s5))

\* Mutant: the index file is written before the transaction is committed.
insert_finish_save_first(s, n, fault) ==
    LET s4 == [s EXCEPT !._next_id = @ + n]
        s5 == save_index(s4)
    IN  CASE fault = "crash_before_commit" -> Crash(s5)
          [] fault = "crash_before_save"   -> Crash(s4)
          [] fault = "write_index_fails"   -> Raise(s4, "RuntimeError")
          [] OTHER                         -> Return(commit(s5))

\* Lines 127-129: the cursor is advanced, the transaction committed and the
\* index written, unless the environment interferes.
insert_finish(s, n, fault) ==
    LET s4 == [s EXCEPT !._next_id = @ + n]
        s5 == commit(s4)
    IN  CASE fault = "crash_before_commit" -> Crash(s4)
          [] fault = "crash_before_save"   -> Crash(s5)
          [] fault = "write_index_fails"   -> Raise(s5, "RuntimeError")
          [] OTHER                         -> Return(save_index(s5))

\* Lines 94-129: what insert_resume does once the arity check has passed.
insert_rows(s, meta, chunks, embeddings, fault) ==
    LET s1 == [s EXCEPT !.conn.resumes = upsert_resume_row(@, meta)]
        vec_ids == arange(s._next_id, s._next_id + Len(chunks))
    IN  IF embeddings = <<>>
        THEN Raise(s1, "AxisError")        \* np.linalg.norm(axis=1) of a 1-D array
        ELSE IF \E i \in 1..Len(embeddings) : Len(embeddings[i]) # VECTOR_DIM
        THEN Raise(s1, "AssertionError")   \* add_with_ids checks the dimension
        ELSE
        LET s2 == [s1 EXCEPT !.index =
                      add_with_ids(@, _l2_normalize(embeddings), vec_ids,
                                   meta.resume_id)]
            ins == executemany_chunks(s2.conn.chunks, vec_ids,
                                      meta.resume_id, chunks)
            s3 == [s2 EXCEPT !.conn.chunks = ins.chunks]
        IN  IF ~ins.ok THEN Raise(s3, "IntegrityError")
            ELSE insert_finish(s3, Len(chunks), fault)

\* Mutant: the arity check runs after the resumes row was upserted.
insert_resume_late_check(s, meta, chunks, embeddings, fault) ==
    IF Len(chunks) # Len(embeddings)
    THEN Raise([s EXCEPT !.conn.resumes = upsert_resume_row(@, meta)],
               "ValueError")
    ELSE insert_rows(s, meta, chunks, embeddings, fault)

insert_resume(s, meta, chunks, embeddings, fault) ==
    IF Len(chunks) # Len(embeddings) THEN Raise(s, "ValueError")
    ELSE insert_rows(s, meta, chunks, embeddings, fault)

---------------------------------------------------------------------------
(* delete_resume *)

\* Mutant: the WHERE clause is missing.
chunk_ids_of_all(chunks, resume_id) == {c.vector_id : c \in chunks}

\* SELECT vector_id FROM chunks WHERE resume_id = ?
chunk_ids(chunks, resume_id) ==
    {c.vector_id : c \in {d \in chunks : d.resume_id = resume_id}}

\* Mutant: nothing is removed.
remove_ids_none(idx, ids) == idx

\* index.remove_ids(ids): every entry stored under one of the ids goes.
remove_ids(idx, ids) ==
    LET keep(e) == e.id \notin ids IN SelectSeq(idx, keep)

\* Mutant: the WHERE clause is missing.
delete_chunk_rows_all(chunks, resume_id) == {}

\* DELETE FROM chunks WHERE resume_id = ?
delete_chunk_rows(chunks, resume_id) ==
    {c \in chunks : c.resume_id # resume_id}

\* DELETE FROM resumes WHERE resume_id = ?
delete_resume_row(resumes, resume_id) ==
    [resumes EXCEPT ![resume_id] = NoRow]

delete_resume(s, resume_id, fault) ==
    LET vec_ids == chunk_ids(s.conn.chunks, resume_id)
        s1 == IF vec_ids # {}
              THEN [s EXCEPT !.index = remove_ids(@, vec_ids)]
              ELSE s
        s2 == [s1 EXCEPT !.conn.chunks = delete_chunk_rows(@, resume_id),
                         !.conn.resumes = delete_resume_row(@, resume_id)]
        s3 == commit(s2)
    IN  CASE fault = "crash_before_commit" -> Crash(s2)
          [] fault = "crash_before_save"   -> Crash(s3)
          [] fault = "write_index_fails"   -> Raise(s3, "RuntimeError")
          [] OTHER                         -> Return(save_index(s3))

---------------------------------------------------------------------------
(* Read operations. *)

\* fetch_meta: None when the row is absent.
fetch_meta(s, resume_id) ==
    LET row == s.conn.resumes[resume_id]
    IN  IF row = NoRow THEN None
        ELSE [name             |-> row.name,
              skills           |-> json_loads(row.skills),
              years_experience |-> row.years_experience]

\* vector_to_resume: "" when no chunk row has the vector_id.
vector_to_resume(s, vector_id) ==
    IF \E c \in s.conn.chunks : c.vector_id = vector_id
    THEN (CHOOSE c \in s.conn.chunks : c.vector_id = vector_id).resume_id
    ELSE ""

\* get_chunks_for_resume: SELECT vector_id, text ... ORDER BY vector_id.
RECURSIVE order_by_vector_id(_)
order_by_vector_id(rows) ==
    IF rows = {} THEN <<>>
    ELSE LET first == CHOOSE c \in rows :
                          \A d \in rows : c.vector_id <= d.vector_id
         IN  <<first>> \o order_by_vector_id(rows \ {first})

\* Mutant: ORDER BY vector_id DESC.
get_chunks_for_resume_descending(s, resume_id) ==
    LET rows == order_by_vector_id(
                    {c \in s.conn.chunks : c.resume_id = resume_id})
    IN  [i \in 1..Len(rows) |-> <<rows[Len(rows) + 1 - i].vector_id,
                                  rows[Len(rows) + 1 - i].text>>]

get_chunks_for_resume(s, resume_id) ==
    LET rows == order_by_vector_id(
                    {c \in s.conn.chunks : c.resume_id = resume_id})
    IN  [i \in 1..Len(rows) |-> <<rows[i].vector_id, rows[i].text>>]

\* index_size: index.ntotal.
index_size(s) == Len(s.index)

\* get_all_resume_ids
get_all_resume_ids(s) == {r \in IDS : s.conn.resumes[r] # NoRow}

---------------------------------------------------------------------------
(* search_vectors *)

\* The inner product of two normalised rows, as the fraction num / den.
RECURSIVE dot(_, _)
dot(a, b) ==
    IF a = <<>> \/ b = <<>> THEN 0
    ELSE Head(a) * Head(b) + dot(Tail(a), Tail(b))

inner_product(q, v) == [num |-> dot(q.num, v.num), den |-> q.den * v.den]

\* Comparison of two scores (the denominators are positive).
Greater(a, b) == a.num * b.den > b.num * a.den

SameScore(a, b) == a.num * b.den = b.num * a.den

\* Mutant: the lowest score ranks first.
ranks_before_ascending(idx, q, p, o, engine) ==
    LET sp == inner_product(q, idx[p].vec)
        so == inner_product(q, idx[o].vec)
    IN  \/ Greater(so, sp)
        \/ /\ SameScore(sp, so)
           /\ IF engine = "ties_newest_first" THEN p > o ELSE p < o

\* Entry p of the index ranks before entry o for the query row q.
ranks_before(idx, q, p, o, engine) ==
    LET sp == inner_product(q, idx[p].vec)
        so == inner_product(q, idx[o].vec)
    IN  \/ Greater(sp, so)
        \/ /\ SameScore(sp, so)
           /\ IF engine = "ties_newest_first" THEN p > o ELSE p < o

\* The positions `rest` of the index, best first.
RECURSIVE ranking(_, _, _, _)
ranking(idx, q, rest, engine) ==
    IF rest = {} THEN <<>>
    ELSE LET best == CHOOSE p \in rest :
                         \A o \in rest \ {p} : ranks_before(idx, q, p, o, engine)
         IN  <<best>> \o ranking(idx, q, rest \ {best}, engine)

\* The label faiss puts where it has no result.
NoMatch == -1

\* index.search(q, k) of IndexIDMap(IndexFlatIP): for each row of q the k
\* best (score, id) pairs by descending inner product, padded with id -1
\* when the index holds fewer than k vectors.
index_search(idx, q, k, engine) ==
    [r \in 1..Len(q) |->
        LET order == ranking(idx, q[r], 1..Len(idx), engine)
        IN  [j \in 1..k |->
                IF j <= Len(order)
                THEN <<inner_product(q[r], idx[order[j]].vec), idx[order[j]].id>>
                ELSE <<[num |-> -1, den |-> 1], NoMatch>>]]

\* Lines 169-174: the rows of the query, normalised; ValueError for anything
\* but an ndarray or a non-empty list.
query_rows(query_vec) ==
    _l2_normalize(IF query_vec.ndim = 2 THEN query_vec.value
                  ELSE <<query_vec.value>>)

accepted(query_vec) ==
    \/ query_vec.type = "ndarray"
    \/ query_vec.type = "list" /\ query_vec.value # <<>>

\* Mutant: the exception of index.search is not caught.
search_try_propagates(s, q, top_k, engine) ==
    LET k == Min(top_k, Len(s.index))
        real(hit) == hit[2] # NoMatch
    IN  IF \/ engine = "raises"
           \/ k <= 0
           \/ \E r \in 1..Len(q) : Len(q[r].num) # VECTOR_DIM
        THEN Raise(s, "RuntimeError")
        ELSE ReturnValue(s, SelectSeq(index_search(s.index, q, k, engine)[1], real))

\* Lines 179-187: the try block.  index.search asserts k > 0 and the
\* dimension of the query; every exception is caught and [] returned.
search_try(s, q, top_k, engine) ==
    LET k == Min(top_k, Len(s.index))
        real(hit) == hit[2] # NoMatch
    IN  IF \/ engine = "raises"
           \/ k <= 0
           \/ \E r \in 1..Len(q) : Len(q[r].num) # VECTOR_DIM
        THEN ReturnValue(s, <<>>)
        ELSE ReturnValue(s, SelectSeq(index_search(s.index, q, k, engine)[1], real))

\* Mutant: an empty index is an error.
search_vectors_empty_raises(s, query_vec, top_k, engine) ==
    IF ~accepted(query_vec) THEN Raise(s, "ValueError")
    ELSE IF Len(s.index) = 0 THEN Raise(s, "RuntimeError")
    ELSE search_try(s, query_rows(query_vec), top_k, engine)

search_vectors(s, query_vec, top_k, engine) ==
    IF ~accepted(query_vec) THEN Raise(s, "ValueError")
    ELSE IF Len(s.index) = 0 THEN ReturnValue(s, <<>>)
    ELSE search_try(s, query_rows(query_vec), top_k, engine)

---------------------------------------------------------------------------
(* search_by_metadata *)

\* An optional argument that is given.
Some(v) == [some |-> v]

\* The arguments of search_by_metadata; None is an argument left out.
SkillFilters ==
    {None, Some(<<>>), Some(<<"SQL">>), Some(<<"py", "java">>), Some(<<"s_l">>)}

YearFilters == {None, Some(0), Some(5)}

NameFilters == {None, Some(""), Some("An"), Some("ob")}

FilterCall(skills, min_years, max_years, name_pattern) ==
    [skills |-> skills, min_years |-> min_years, max_years |-> max_years,
     name_pattern |-> name_pattern]

\* The search_by_metadata calls the callers make between two writes.
FilterCalls ==
    { FilterCall(None, None, None, None),
      FilterCall(Some(<<"SQL">>), None, None, None),
      FilterCall(Some(<<"py", "java">>), Some(0), Some(5), Some("An")),
      FilterCall(Some(<<"s_l">>), None, None, None),
      FilterCall(Some(<<>>), Some(5), None, Some("ob")) }

\* The characters of the strings the model uses.
Chars(str) ==
    CASE str = ""       -> <<>>
      [] str = "python" -> <<"p", "y", "t", "h", "o", "n">>
      [] str = "sql"    -> <<"s", "q", "l">>
      [] str = "go"     -> <<"g", "o">>
      [] str = "SQL"    -> <<"S", "Q", "L">>
      [] str = "py"     -> <<"p", "y">>
      [] str = "java"   -> <<"j", "a", "v", "a">>
      [] str = "s_l"    -> <<"s", "_", "l">>
      [] str = "Ann"    -> <<"A", "n", "n">>
      [] str = "Bob"    -> <<"B", "o", "b">>
      [] str = "An"     -> <<"A", "n">>
      [] str = "ob"     -> <<"o", "b">>
      [] OTHER          -> <<str>>

\* The text of a token list of json_dumps.
RECURSIVE text_of(_)
text_of(tokens) ==
    IF tokens = <<>> THEN <<>>
    ELSE Chars(Head(tokens)) \o text_of(Tail(tokens))

\* One character in lower case.
lower_char(ch) ==
    CASE ch = "A" -> "a"
      [] ch = "B" -> "b"
      [] ch = "L" -> "l"
      [] ch = "Q" -> "q"
      [] ch = "S" -> "s"
      [] OTHER    -> ch

\* str.lower()
lower(chars) == [i \in 1..Len(chars) |-> lower_char(chars[i])]

\* SQLite's `text LIKE pattern`: % matches any run of characters, _ any one
\* character, every other character itself, ASCII letters without regard
\* to case.
RECURSIVE like(_, _)
like(text, pattern) ==
    IF pattern = <<>> THEN text = <<>>
    ELSE IF Head(pattern) = "%"
    THEN \/ like(text, Tail(pattern))
         \/ text # <<>> /\ like(Tail(text), pattern)
    ELSE /\ text # <<>>
         /\ \/ Head(pattern) = "_"
            \/ lower_char(Head(pattern)) = lower_char(Head(text))
         /\ like(Tail(text), Tail(pattern))

\* f"%{...}%"
percent(chars) == <<"%">> \o chars \o <<"%">>

\* The WHERE clause search_by_metadata builds, evaluated on one row.  A
\* clause is added for a non-empty skills list, for min_years and max_years
\* that are not None, and for a non-empty name_pattern.
where_clause(row, skills, min_years, max_years, name_pattern) ==
    /\ (skills # None /\ skills # Some(<<>>))
         => \E i \in 1..Len(skills.some) :
                like(text_of(row.skills), percent(lower(Chars(skills.some[i]))))
    /\ min_years # None => row.years_experience >= min_years.some
    /\ max_years # None => row.years_experience <= max_years.some
    /\ (name_pattern # None /\ name_pattern # Some(""))
         => like(Chars(row.name), percent(Chars(name_pattern.some)))

\* search_by_metadata: the resume_ids of the rows the WHERE clause selects.
search_by_metadata(s, skills, min_years, max_years, name_pattern) ==
    ReturnValue(s, {r \in IDS :
                      /\ s.conn.resumes[r] # NoRow
                      /\ where_clause(s.conn.resumes[r], skills, min_years,
                                      max_years, name_pattern)})

---------------------------------------------------------------------------
(* The state machine. *)

EmptyTables == [resumes |-> [r \in IDS |-> NoRow], chunks |-> {}]

\* A first start in an empty data directory.
Init ==
    /\ conn = EmptyTables
    /\ db_file = EmptyTables
    /\ index = <<>>
    /\ index_file = NoFile
    /\ _next_id = 0
    /\ last = [op |-> "start", err |-> "none", existed |-> FALSE]
    /\ issued = {}
    /\ faults = 0
    /\ result = NoResult
    /\ inserted = {}
    /\ calls = [t \in Threads |-> IdleCall]
    /\ mongo = [r \in IDS |-> NoDoc]
    /\ gridfs = {}
    /\ qdrant = <<>>
    /\ request = NoRequest
    /\ embedding = NoEmbedding
    /\ response = NoResponse

\* The vector_ids of the chunk rows a call committed.
Committed(before, after) ==
    {c.vector_id : c \in after.db_file.chunks \ before.db_file.chunks}

\* The outcomes only the environment produces.
Injected == {"RuntimeError", "crash"}

\* The call has committed its changes: it returned, or it raised or died in
\* or before the write of the index file.
Completed(r, fault) ==
    \/ r.err \in {"none", "RuntimeError"}
    \/ r.err = "crash" /\ fault = "crash_before_save"

\* `last` is the call just made: its name, the exception it raised and whether
\* its resume_id had a resumes row when it was called.
Apply(r, op, rid, existed, fault) ==
    /\ conn' = r.s.conn
    /\ db_file' = r.s.db_file
    /\ index' = r.s.index
    /\ index_file' = r.s.index_file
    /\ _next_id' = r.s._next_id
    /\ last' = [op |-> op, err |-> r.err, existed |-> existed]
    /\ issued' = issued \cup Committed(Store, r.s)
    /\ fault = "none" \/ faults < MaxFaults
    /\ faults' = IF fault # "none" /\ r.err \in Injected THEN faults + 1 ELSE faults
    /\ result' = NoResult
    /\ inserted' = CASE op = "insert" /\ Completed(r, fault) -> inserted \cup {rid}
                      [] op = "delete" /\ Completed(r, fault) -> inserted \ {rid}
                      [] OTHER -> inserted
    /\ UNCHANGED calls
    /\ UNCHANGED api_vars

InsertCall(allowed, metas, inputs) ==
    \E meta \in metas, in \in inputs, fault \in allowed :
        /\ _next_id + Len(in.chunks) <= MaxId
        /\ Len(index) + Len(in.chunks) <= MaxIndex
        /\ conn.resumes[meta.resume_id].version < MaxVersion
        /\ Apply(insert_resume(Store, meta, in.chunks, in.embeddings, fault),
                 "insert", meta.resume_id, conn.resumes[meta.resume_id] # NoRow,
                 fault)

DeleteCall(allowed) ==
    \E rid \in IDS, fault \in allowed :
        Apply(delete_resume(Store, rid, fault), "delete", rid,
              conn.resumes[rid] # NoRow, fault)

\* One process run in a new data directory, the environment not interfering.
Insert == InsertCall(NoFaults, Metas, Inputs)

Delete == DeleteCall(NoFaults)

Next == Insert \/ Delete

Spec == Init /\ [][Next]_vars

\* The store under environment faults: a write of the index file fails, the
\* process dies inside a call or is restarted between two calls.  Inserts
\* pass well-formed arguments.
FaultyInsert == InsertCall(Faults, FewMetas, SmallValidInputs)

FaultyDelete == DeleteCall(Faults)

Restart == Apply(Crash(Store), "restart", "", FALSE, "restart")

NextFaults == FaultyInsert \/ FaultyDelete \/ Restart

SpecFaults == Init /\ [][NextFaults]_vars

\* A read call: the store is what the call leaves (reads change nothing),
\* `result` records the arguments and the value returned.
Answer(r, op, args) ==
    /\ conn' = r.s.conn
    /\ db_file' = r.s.db_file
    /\ index' = r.s.index
    /\ index_file' = r.s.index_file
    /\ _next_id' = r.s._next_id
    /\ last' = [op |-> op, err |-> r.err, existed |-> FALSE]
    /\ UNCHANGED <<issued, faults, inserted, calls>>
    /\ UNCHANGED api_vars
    /\ result' = [op |-> op, args |-> args,
                  value |-> IF r.err = "none" THEN r.value ELSE None]

Search ==
    \E call \in SearchCalls :
        Answer(search_vectors(Store, call.query_vec, call.top_k, call.engine),
               "search", call)

FilterSearch ==
    \E call \in FilterCalls :
        Answer(search_by_metadata(Store, call.skills, call.min_years,
                                  call.max_years, call.name_pattern),
               "filter", call)

GetChunks ==
    \E rid \in IDS :
        Answer(ReturnValue(Store, get_chunks_for_resume(Store, rid)),
               "get_chunks", [resume_id |-> rid])

\* One process run with well-formed inserts, deletes and read calls.
ValidInsert == InsertCall(NoFaults, FewMetas, SmallValidInputs)

NextQueries == ValidInsert \/ Delete \/ Search \/ FilterSearch \/ GetChunks

SpecQueries == Init /\ [][NextQueries]_vars

---------------------------------------------------------------------------
(* insert_resume statement by statement, called from two threads. *)

\* A connection that serves any thread (check_same_thread = False).
same_thread_unchecked(t) == TRUE

\* sqlite3.connect(DB_PATH) with the default check_same_thread = True: every
\* method of the connection raises ProgrammingError in a thread other than
\* the one that created it.
same_thread(t) == t = ConnThread

\* Thread t has run a statement of its call: the store becomes s, its call
\* record becomes `call`, or the call ends when the statement raised `err`
\* or was the last one.
Statement(t, s, call, err, injected) ==
    LET ended == err # "none" \/ call.pc = "idle"
    IN  /\ conn' = s.conn
        /\ db_file' = s.db_file
        /\ index' = s.index
        /\ index_file' = s.index_file
        /\ _next_id' = s._next_id
        /\ calls' = [calls EXCEPT ![t] = IF ended THEN IdleCall ELSE call]
        /\ last' = IF ended
                   THEN [op |-> "insert", err |-> err, existed |-> calls[t].existed]
                   ELSE last
        /\ issued' = issued \cup Committed(Store, s)
        /\ inserted' = IF calls[t].pc = "line_128" /\ err = "none"
                       THEN inserted \cup {calls[t].meta.resume_id}
                       ELSE inserted
        /\ faults' = IF injected THEN faults + 1 ELSE faults
        /\ UNCHANGED result
        /\ UNCHANGED api_vars

At(t, line) == [calls[t] EXCEPT !.pc = line]

\* A caller enters insert_resume.
CallInsert(t) ==
    /\ calls[t].pc = "idle"
    /\ \E meta \in FewMetas, in \in SmallValidInputs :
           /\ _next_id + Len(in.chunks) <= MaxId
           /\ Len(index) + Len(in.chunks) <= MaxIndex
           /\ conn.resumes[meta.resume_id].version < MaxVersion
           /\ Statement(t, Store,
                        [pc |-> "line_91", meta |-> meta, chunks |-> in.chunks,
                         embeddings |-> in.embeddings, vec_ids |-> <<>>,
                         existed |-> conn.resumes[meta.resume_id] # NoRow],
                        "none", FALSE)

\* Lines 91-92: the arity check.
CheckArity(t) ==
    /\ calls[t].pc = "line_91"
    /\ Statement(t, Store, At(t, "line_95"),
                 IF Len(calls[t].chunks) # Len(calls[t].embeddings)
                 THEN "ValueError" ELSE "none", FALSE)

\* Lines 95-116: conn.execute of the upsert.
UpsertRow(t) ==
    /\ calls[t].pc = "line_95"
    /\ IF same_thread(t)
       THEN Statement(t, [Store EXCEPT !.conn.resumes =
                                     upsert_resume_row(@, calls[t].meta)],
                      At(t, "line_119"), "none", FALSE)
       ELSE Statement(t, Store, IdleCall, "ProgrammingError", FALSE)

\* Line 119: vec_ids = np.arange(_next_id, _next_id + len(chunks)).
ReadCursor(t) ==
    /\ calls[t].pc = "line_119"
    /\ Statement(t, Store,
                 [calls[t] EXCEPT !.pc = "line_120",
                                  !.vec_ids = arange(_next_id,
                                                     _next_id + Len(calls[t].chunks))],
                 "none", FALSE)

\* Line 120: index.add_with_ids(_l2_normalize(embeddings), vec_ids).
AddVectors(t) ==
    /\ calls[t].pc = "line_120"
    /\ LET c == calls[t]
       IN  IF c.embeddings = <<>>
           THEN Statement(t, Store, IdleCall, "AxisError", FALSE)
           ELSE IF \E i \in 1..Len(c.embeddings) : Len(c.embeddings[i]) # VECTOR_DIM
           THEN Statement(t, Store, IdleCall, "AssertionError", FALSE)
           ELSE Statement(t, [Store EXCEPT !.index =
                                  add_with_ids(@, _l2_normalize(c.embeddings),
                                               c.vec_ids, c.meta.resume_id)],
                          At(t, "line_122"), "none", FALSE)

\* Lines 122-125: conn.executemany of the chunk rows.  The statement can
\* fail for a reason outside the program (sqlite3.OperationalError: disk
\* full, I/O error) before it has written a row.
InsertChunks(t) ==
    /\ calls[t].pc = "line_122"
    /\ LET c   == calls[t]
           ins == executemany_chunks(conn.chunks, c.vec_ids,
                                     c.meta.resume_id, c.chunks)
       IN  \/ Statement(t, [Store EXCEPT !.conn.chunks = ins.chunks],
                        At(t, "line_127"),
                        IF ~same_thread(t) THEN "ProgrammingError"
                        ELSE IF ins.ok THEN "none" ELSE "IntegrityError", FALSE)
           \/ /\ faults < MaxFaults
              /\ Statement(t, Store, IdleCall, "OperationalError", TRUE)

\* Line 127: _next_id += len(chunks).
AdvanceCursor(t) ==
    /\ calls[t].pc = "line_127"
    /\ Statement(t, [Store EXCEPT !._next_id = @ + Len(calls[t].chunks)],
                 At(t, "line_128"), "none", FALSE)

\* Line 128: conn.commit().
CommitRows(t) ==
    /\ calls[t].pc = "line_128"
    /\ Statement(t, commit(Store), At(t, "line_129"), "none", FALSE)

\* Line 129: save_index(); the call returns.
SaveIndex(t) ==
    /\ calls[t].pc = "line_129"
    /\ Statement(t, save_index(Store), IdleCall, "none", FALSE)

\* One process run of inserts, the callers on two threads and nothing but
\* the interpreter ordering their statements.
NextSteps ==
    \E t \in Threads :
        \/ CallInsert(t) \/ CheckArity(t) \/ UpsertRow(t) \/ ReadCursor(t)
        \/ AddVectors(t) \/ InsertChunks(t) \/ AdvanceCursor(t)
        \/ CommitRows(t) \/ SaveIndex(t)

SpecSteps == Init /\ [][NextSteps]_vars

---------------------------------------------------------------------------
(* The HTTP service: main.py over db_mongo.py, qdrant_db.py, embedder.py. *)

\* The uploaded files: their name and the chunks chunk_text makes of their
\* text (none for a file without usable text).
Files ==
    { [filename |-> "a.pdf", chunks |-> <<"t1">>],
      [filename |-> "b.pdf", chunks |-> <<"t1", "t2">>],
      [filename |-> "c.pdf", chunks |-> <<>>] }

\* The `texts` arguments of a direct embed_texts call (nl_search passes
\* [query]): no text, a blank text, a text.
DirectTexts == {<<>>, <<" ">>, <<"t2">>}

\* What one call of client.embeddings.create does.
ServiceOutcomes == {"ok", "RateLimitError", "OpenAIError", "Exception"}

\* The arguments of a qdrant_db.search_vectors call.
VectorQueries == {<<3, 4>>, <<0, 5>>}

Limits == {1, 2, 3}

TieOrders == {"ties_oldest_first", "ties_newest_first"}

\* db_mongo.insert_resume, lines 66-85: the file goes to GridFS under the
\* resume_id, the document into the collection.
mongo_insert_resume(m, g, meta, full_text, filename) ==
    [gridfs |-> g \cup {meta.resume_id},
     mongo  |-> [m EXCEPT ![meta.resume_id] =
                    [found |-> TRUE, name |-> meta.name, email |-> meta.email,
                     skills |-> meta.skills,
                     years_experience |-> meta.years_experience,
                     original_filename |-> filename, full_text |-> full_text]],
     err    |-> "none"]

\* db_mongo.delete_resume, lines 90-98.  fs.delete raises gridfs.errors.NoFile
\* when the bucket has no file with this id; otherwise the file is deleted,
\* then the document, and delete_one's count is returned.
mongo_delete_resume(m, g, resume_id) ==
    IF resume_id \notin g
    THEN [gridfs |-> g, mongo |-> m, err |-> "NoFile", deleted_count |-> 0]
    ELSE [gridfs |-> g \ {resume_id},
          mongo  |-> [m EXCEPT ![resume_id] = NoDoc],
          err    |-> "none",
          deleted_count |-> IF m[resume_id] = NoDoc THEN 0 ELSE 1]

\* db_mongo.fetch_meta: the document without its full_text, or None.
mongo_fetch_meta(m, resume_id) ==
    IF m[resume_id] = NoDoc THEN None
    ELSE [f \in DOMAIN m[resume_id] \ {"full_text"} |-> m[resume_id][f]]

\* qdrant_db.upsert_resume_vectors: one point per (chunk, embedding) pair
\* under a new uuid.  The collection uses Distance.COSINE, so Qdrant stores
\* the vector normalised.
upsert_resume_vectors(pts, resume_id, chunks, embeddings) ==
    IF embeddings = <<>> THEN pts
    ELSE pts \o [i \in 1..Min(Len(chunks), Len(embeddings)) |->
                    [payload |-> [resume_id |-> resume_id, text_chunk |-> chunks[i]],
                     vec |-> normalize_row(embeddings[i])]]

\* qdrant_db.delete_vectors_for_resume: the points whose payload has this
\* resume_id are removed.
delete_vectors_for_resume(pts, resume_id) ==
    LET keep(pt) == pt.payload.resume_id # resume_id IN SelectSeq(pts, keep)

\* qdrant.search(query_vector, limit, with_payload=True): the `limit` points
\* of highest cosine similarity, best first.
qdrant_search(pts, query_vector, limit, tie_order) ==
    LET q     == normalize_row(query_vector)
        order == ranking(pts, q, 1..Len(pts), tie_order)
    IN  [j \in 1..Min(limit, Len(pts)) |->
            [payload |-> pts[order[j]].payload,
             score   |-> inner_product(q, pts[order[j]].vec)]]

\* Mutant: a resume keeps the lowest score of its points.
RECURSIVE resume_scores_lowest(_, _)
resume_scores_lowest(scored, acc) ==
    IF scored = <<>> THEN acc
    ELSE LET pt   == Head(scored)
             r_id == pt.payload.resume_id
             seen == {i \in 1..Len(acc) : acc[i].resume_id = r_id}
         IN  IF seen = {}
             THEN resume_scores_lowest(Tail(scored),
                      Append(acc, [resume_id |-> r_id, score |-> pt.score]))
             ELSE LET i == CHOOSE k \in seen : TRUE
                  IN  resume_scores_lowest(Tail(scored),
                          IF Greater(acc[i].score, pt.score)
                          THEN [acc EXCEPT ![i].score = pt.score] ELSE acc)

\* Lines 112-116: the dict resume_id -> highest score so far, as the list
\* of its items in insertion order.
RECURSIVE resume_scores(_, _)
resume_scores(scored, acc) ==
    IF scored = <<>> THEN acc
    ELSE LET pt   == Head(scored)
             r_id == pt.payload.resume_id
             seen == {i \in 1..Len(acc) : acc[i].resume_id = r_id}
         IN  IF seen = {}
             THEN resume_scores(Tail(scored),
                      Append(acc, [resume_id |-> r_id, score |-> pt.score]))
             ELSE LET i == CHOOSE k \in seen : TRUE
                  IN  resume_scores(Tail(scored),
                          IF Greater(pt.score, acc[i].score)
                          THEN [acc EXCEPT ![i].score = pt.score] ELSE acc)

\* sorted(items, key=score, reverse=True): by descending score, items of
\* equal score in their original order.
RECURSIVE sorted_reverse(_)
sorted_reverse(items) ==
    IF items = <<>> THEN <<>>
    ELSE LET before == sorted_reverse(SubSeq(items, 1, Len(items) - 1))
             x      == items[Len(items)]
             ahead  == {i \in 1..Len(before) : ~Greater(x.score, before[i].score)}
             n      == Cardinality(ahead)
         IN  SubSeq(before, 1, n) \o <<x>> \o SubSeq(before, n + 1, Len(before))

\* qdrant_db.search_vectors, lines 104-121.
qdrant_search_vectors(pts, query_embedding, top_k, tie_order) ==
    LET search_result == qdrant_search(pts, query_embedding, top_k, tie_order)
    IN  sorted_reverse(resume_scores(search_result, <<>>))

\* embedder.py line 102.
max_retries == 3

\* Mutant: the loop has no bound (the count stops one past max_retries).
embed_attempt_unbounded(e, outcome) ==
    IF outcome = "ok"
    THEN [pc |-> "returned", texts |-> e.texts, attempt |-> e.attempt,
          tried |-> e.tried + 1, status |-> 200,
          value |-> [i \in 1..Len(e.texts) |-> Embed(e.texts[i])]]
    ELSE [e EXCEPT !.tried = IF @ < max_retries + 1 THEN @ + 1 ELSE @]

\* embed_texts, lines 95-100: nothing to embed gives [] and no call of the
\* service; otherwise the loop is entered with the non-blank texts.
embed_start(texts) ==
    LET kept == SelectSeq(texts, LAMBDA x : x # " ")
    IN  IF kept = <<>>
        THEN [pc |-> "returned", texts |-> kept, attempt |-> 0, tried |-> 0,
              status |-> 200, value |-> <<>>]
        ELSE [pc |-> "line_107", texts |-> kept, attempt |-> 0, tried |-> 0,
              status |-> 0, value |-> <<>>]

\* Lines 103-137, one iteration of the loop: the service is called; its
\* answer is returned, or the attempt is counted and the loop goes on, or on
\* the last attempt the HTTPException of the failure's kind is raised.
embed_attempt(e, outcome) ==
    IF outcome = "ok"
    THEN [pc |-> "returned", texts |-> e.texts, attempt |-> e.attempt,
          tried |-> e.tried + 1, status |-> 200,
          value |-> [i \in 1..Len(e.texts) |-> Embed(e.texts[i])]]
    ELSE IF e.attempt < max_retries - 1
    THEN [e EXCEPT !.attempt = @ + 1, !.tried = @ + 1]
    ELSE [pc |-> "raised", texts |-> e.texts, attempt |-> e.attempt,
          tried |-> e.tried + 1,
          status |-> CASE outcome = "RateLimitError" -> 429
                       [] outcome = "OpenAIError"    -> 502
                       [] OTHER                      -> 500,
          value |-> <<>>]

\* What a request leaves: the three stores, the waiting request, the
\* embed_texts frame and the answer.
Served(m, g, pts, req, e, resp) ==
    /\ mongo' = m
    /\ gridfs' = g
    /\ qdrant' = pts
    /\ request' = req
    /\ embedding' = e
    /\ response' = resp
    /\ UNCHANGED db_vars

Answered(endpoint, status, resume_id) ==
    [endpoint |-> endpoint, status |-> status, resume_id |-> resume_id]

Quiet == request = NoRequest /\ embedding.pc \in {"idle", "returned", "raised"}

\* uuid.uuid4() of build_meta never returns an id that a store holds.
Unused(resume_id) ==
    /\ mongo[resume_id] = NoDoc
    /\ resume_id \notin gridfs
    /\ delete_vectors_for_resume(qdrant, resume_id) = qdrant

\* POST /upload, lines 92-117: 400 for a file without chunks, otherwise
\* embed_texts(chunks) is awaited.
UploadResume ==
    /\ Quiet
    /\ \E resume_id \in IDS : Unused(resume_id)
    /\ \E file \in Files, profile \in Profiles :
           IF file.chunks = <<>>
           THEN Served(mongo, gridfs, qdrant, NoRequest, NoEmbedding,
                       Answered("upload", 400, ""))
           ELSE Served(mongo, gridfs, qdrant,
                       [endpoint |-> "upload", file |-> file, profile |-> profile,
                        resume_id |-> ""],
                       embed_start(file.chunks), NoResponse)

\* POST /upsert, lines 203-213: 404 for an unknown resume_id, 400 for a
\* file without chunks, otherwise embed_texts(chunks) is awaited.
UpsertResume ==
    /\ Quiet
    /\ \E resume_id \in IDS, file \in Files, profile \in Profiles :
           IF mongo_fetch_meta(mongo, resume_id) = None
           THEN Served(mongo, gridfs, qdrant, NoRequest, NoEmbedding,
                       Answered("upsert", 404, resume_id))
           ELSE IF file.chunks = <<>>
           THEN Served(mongo, gridfs, qdrant, NoRequest, NoEmbedding,
                       Answered("upsert", 400, resume_id))
           ELSE Served(mongo, gridfs, qdrant,
                       [endpoint |-> "upsert", file |-> file, profile |-> profile,
                        resume_id |-> resume_id],
                       embed_start(file.chunks), NoResponse)

\* A direct call of embedder.embed_texts.
EmbedTexts ==
    /\ Quiet
    /\ \E texts \in DirectTexts :
           Served(mongo, gridfs, qdrant,
                  [endpoint |-> "embed_texts", file |-> None, profile |-> None,
                   resume_id |-> ""],
                  embed_start(texts), NoResponse)

\* One iteration of the loop of embed_texts.
EmbedAttempt ==
    /\ embedding.pc = "line_107"
    /\ \E outcome \in ServiceOutcomes :
           Served(mongo, gridfs, qdrant, request,
                  embed_attempt(embedding, outcome), response)

\* POST /upload, lines 118-132, after embed_texts: its HTTPException is
\* passed on; otherwise build_meta draws a new resume_id, the resume goes to
\* MongoDB and GridFS, its vectors to Qdrant.
UploadStore ==
    /\ request.endpoint = "upload"
    /\ embedding.pc \in {"returned", "raised"}
    /\ IF embedding.pc = "raised"
       THEN Served(mongo, gridfs, qdrant, NoRequest, NoEmbedding,
                   Answered("upload", embedding.status, ""))
       ELSE \E resume_id \in IDS :
               /\ Unused(resume_id)
               /\ LET meta == Meta(resume_id, request.profile)
                      ins  == mongo_insert_resume(mongo, gridfs, meta,
                                                  request.file.chunks,
                                                  request.file.filename)
                  IN  Served(ins.mongo, ins.gridfs,
                             upsert_resume_vectors(qdrant, resume_id,
                                                   request.file.chunks,
                                                   embedding.value),
                             NoRequest, NoEmbedding,
                             Answered("upload", 200, resume_id))

\* POST /upsert, lines 231-244, after embed_texts returned: the old resume
\* is deleted from MongoDB, GridFS and Qdrant; the arguments of
\* db.insert_resume name `file_content`, which upsert_resume never assigns,
\* so line 234 raises NameError and `except Exception` answers 500.
upsert_store(m, g, pts, req, embeddings) ==
    LET del  == mongo_delete_resume(m, g, req.resume_id)
        pts2 == delete_vectors_for_resume(pts, req.resume_id)
    IN  IF del.err # "none"
        THEN [mongo |-> m, gridfs |-> g, qdrant |-> pts, status |-> 500]
        ELSE [mongo |-> del.mongo, gridfs |-> del.gridfs, qdrant |-> pts2,
              status |-> 500]

UpsertStore ==
    /\ request.endpoint = "upsert"
    /\ embedding.pc \in {"returned", "raised"}
    /\ IF embedding.pc = "raised"
       THEN Served(mongo, gridfs, qdrant, NoRequest, NoEmbedding,
                   Answered("upsert", embedding.status, request.resume_id))
       ELSE LET r == upsert_store(mongo, gridfs, qdrant, request, embedding.value)
            IN  Served(r.mongo, r.gridfs, r.qdrant, NoRequest, NoEmbedding,
                       Answered("upsert", r.status, request.resume_id))

\* The direct embed_texts call has returned or raised.
EmbedDone ==
    /\ request.endpoint = "embed_texts"
    /\ embedding.pc \in {"returned", "raised"}
    /\ Served(mongo, gridfs, qdrant, NoRequest, embedding,
              [endpoint |-> "embed_texts", status |-> embedding.status,
               resume_id |-> "", value |-> embedding.value])

\* DELETE /resume/{resume_id}, lines 250-270.  The only handler is `except
\* Exception`: the NoFile of db.delete_resume and the HTTPException(404) of
\* line 254 are both answered as 500.
main_delete_resume(m, g, pts, resume_id) ==
    LET del == mongo_delete_resume(m, g, resume_id)
    IN  IF del.err # "none"
        THEN [mongo |-> m, gridfs |-> g, qdrant |-> pts, status |-> 500]
        ELSE IF del.deleted_count = 0
        THEN [mongo |-> del.mongo, gridfs |-> del.gridfs, qdrant |-> pts,
              status |-> 500]
        ELSE [mongo |-> del.mongo, gridfs |-> del.gridfs,
              qdrant |-> delete_vectors_for_resume(pts, resume_id),
              status |-> 200]

DeleteResume ==
    /\ Quiet
    /\ \E resume_id \in IDS :
           LET r == main_delete_resume(mongo, gridfs, qdrant, resume_id)
           IN  Served(r.mongo, r.gridfs, r.qdrant, NoRequest, NoEmbedding,
                      Answered("delete", r.status, resume_id))

\* A call of qdrant_db.search_vectors.
SearchVectors ==
    /\ Quiet
    /\ \E query_embedding \in VectorQueries, top_k \in Limits, tie_order \in TieOrders :
           Served(mongo, gridfs, qdrant, NoRequest, NoEmbedding,
                  [endpoint |-> "search_vectors", status |-> 200, resume_id |-> "",
                   scored |-> qdrant_search(qdrant, query_embedding, top_k, tie_order),
                   value  |-> qdrant_search_vectors(qdrant, query_embedding,
                                                    top_k, tie_order)])

NextApi ==
    \/ UploadResume \/ UpsertResume \/ EmbedTexts \/ EmbedAttempt
    \/ UploadStore \/ UpsertStore \/ EmbedDone \/ DeleteResume \/ SearchVectors

SpecApi == Init /\ [][NextApi]_vars

\* The service under a fair embedding client: a call that was made is
\* answered or fails.
SpecApiFair == SpecApi /\ WF_vars(EmbedAttempt)

---------------------------------------------------------------------------
(* Properties. *)

IndexIds(idx) == {idx[i].id : i \in 1..Len(idx)}

ChunkRowIds(chunks) == {c.vector_id : c \in chunks}

\* The outcome of a call made in the current state, the environment not
\* interfering.
InsertOutcome(meta, in) ==
    insert_resume(Store, meta, in.chunks, in.embeddings, "none")

DeleteOutcome(rid) == delete_resume(Store, rid, "none")

Succeeded(op) == last.op = op /\ last.err = "none"

\* A query search_vectors accepts whose rows have the configured dimension.
WellFormed(query_vec) ==
    /\ accepted(query_vec)
    /\ IF query_vec.ndim = 2
       THEN \A r \in 1..Len(query_vec.value) :
                Len(query_vec.value[r]) = VECTOR_DIM
       ELSE Len(query_vec.value) = VECTOR_DIM

\* The search call in the current state.
SearchOutcome(query_vec, top_k, engine) ==
    search_vectors(Store, query_vec, top_k, engine)

\* a occurs in b as a contiguous run of characters.
Occurs(a, b) ==
    \E i \in 0..(Len(b) - Len(a)) : SubSeq(b, i + 1, i + Len(a)) = a

\* The last call was a search that returned a list.
Searched == result.op = "search" /\ last.err = "none"

\* C1: a vector_id handed out by an insert is never handed out again, across
\* deletes and restarts: no step commits a chunk row under a vector_id that an
\* earlier insert was given.
C1_VectorIdNeverReissued ==
    [][\A c \in db_file'.chunks \ db_file.chunks : c.vector_id \notin issued]_vars

\* C2: after every insert or delete that completes without error, the
\* vector_ids held by the in-memory index are the vector_ids of the rows of
\* the chunks table.
C2_IndexMatchesChunks ==
    (Succeeded("insert") \/ Succeeded("delete"))
        => IndexIds(index) = ChunkRowIds(conn.chunks)

C2_Witness ==
    /\ Succeeded("delete")
    /\ last.existed
    /\ Cardinality(IndexIds(index)) >= 2

\* C3: search never pairs a vector with wrong metadata.  A search with
\* top_k = ntotal returns every entry of the index, so: the vector_id of
\* every index entry maps through vector_to_resume either to no document ("")
\* or to the document whose insert added the entry.
C3_NoWrongMetadata ==
    \A i \in 1..Len(index) :
        vector_to_resume(Store, index[i].id) \in {"", index[i].by}

\* C4: a successful insert under a resume_id that already has a row replaces
\* the document's chunks: afterwards get_chunks returns exactly the chunks of
\* this insert, under fresh vector_ids, and the index holds no vector of the
\* earlier insert.
C4_ReinsertReplacesChunks ==
    [][\A rid \in IDS :
         (/\ last'.op = "insert"
          /\ last'.err = "none"
          /\ conn.resumes[rid] # NoRow
          /\ conn'.resumes[rid] # conn.resumes[rid])
         => /\ ChunkRowIds({c \in conn'.chunks : c.resume_id = rid})
                 = _next_id .. (_next_id' - 1)
            /\ IndexIds(index') \cap chunk_ids(conn.chunks, rid) = {}]_vars

\* C5: a successful insert leaves the document's row with the new name,
\* contact, tags and experience_years, and with version 1 when the
\* resume_id had no row and old version + 1 when it had one.
C5_VersionAndFields ==
    \A meta \in Metas, in \in Inputs :
        LET r == InsertOutcome(meta, in)
            old == conn.resumes[meta.resume_id]
        IN  r.err = "none" =>
              r.s.conn.resumes[meta.resume_id] =
                [name             |-> meta.name,
                 email            |-> meta.email,
                 skills           |-> json_dumps(meta.skills),
                 years_experience |-> meta.years_experience,
                 version          |-> IF old = NoRow THEN 1 ELSE old.version + 1]

\* Two inserts of the same resume_id: version 2, committed.
C5_Witness ==
    /\ Succeeded("insert")
    /\ last.existed
    /\ \E rid \in IDS :
         /\ conn.resumes[rid].version = 2
         /\ db_file.resumes[rid] = conn.resumes[rid]
         /\ Cardinality(chunk_ids(conn.chunks, rid)) > Len(Corpus)

C7_CursorMonotone ==
    /\ \A id \in issued : id < _next_id
    /\ \A rid \in IDS : DeleteOutcome(rid).s._next_id = _next_id
    /\ \A meta \in Metas, in \in Inputs :
         LET r == InsertOutcome(meta, in)
         IN  /\ r.s._next_id >= _next_id
             /\ r.err = "none" =>
                  /\ r.s._next_id = _next_id + Len(in.chunks)
                  /\ Committed(Store, r.s) = _next_id .. (r.s._next_id - 1)
                  /\ \A new \in Committed(Store, r.s), id \in issued : new > id

\* D1 was inserted with 2 chunks, D2 with 3, D1 was deleted: the cursor is 5.
C7_Witness ==
    /\ Succeeded("delete")
    /\ last.existed
    /\ conn.resumes["D1"] = NoRow
    /\ chunk_ids(conn.chunks, "D2") = 2..4
    /\ ChunkRowIds(conn.chunks) = 2..4
    /\ _next_id = 5

\* C8: delete of an existing document leaves no row and no chunk row of it,
\* none of its vector_ids in the index, count() smaller by the number of its
\* chunks, and the rows and vectors of every other document as they were.
C8_DeleteRemovesDocument ==
    \A rid \in IDS :
        conn.resumes[rid] # NoRow =>
          LET r == DeleteOutcome(rid)
              old == chunk_ids(conn.chunks, rid)
          IN  /\ r.err = "none"
              /\ fetch_meta(r.s, rid) = None
              /\ \A c \in r.s.conn.chunks : c.resume_id # rid
              /\ IndexIds(r.s.index) \cap old = {}
              /\ index_size(r.s) = index_size(Store) - Cardinality(old)
              /\ \A other \in IDS \ {rid} :
                   /\ r.s.conn.resumes[other] = conn.resumes[other]
                   /\ get_chunks_for_resume(r.s, other)
                        = get_chunks_for_resume(Store, other)
              /\ \A i \in 1..Len(index) :
                   index[i].id \notin old => index[i] \in Range(r.s.index)

\* A document with chunks was deleted while another document keeps its own.
C8_Witness ==
    /\ Succeeded("delete")
    /\ last.existed
    /\ index # <<>>
    /\ Cardinality(issued) > Cardinality(conn.chunks)

\* C9: delete of a resume_id that has no row raises nothing and changes
\* neither the rows, nor the chunk rows, nor the index, nor the cursor.
C9_DeleteAbsentIsNoOp ==
    \A rid \in IDS :
        conn.resumes[rid] = NoRow =>
          LET r == DeleteOutcome(rid)
          IN  /\ r.err = "none"
              /\ r.s.conn = conn
              /\ r.s.index = index
              /\ r.s._next_id = _next_id

C9_Witness ==
    /\ Succeeded("delete")
    /\ ~last.existed
    /\ index # <<>>
    /\ conn.chunks # {}

\* C10: an insert whose chunk texts and vectors differ in number raises the
\* arity error and changes nothing: tables (as seen and as committed), index,
\* index file and cursor.
C10_ArityMismatchRejected ==
    \A meta \in Metas, in \in Inputs :
        Len(in.chunks) # Len(in.embeddings) =>
          LET r == InsertOutcome(meta, in)
          IN  /\ r.err = "ValueError"
              /\ r.s = Store

C10_Witness ==
    /\ last.op = "insert"
    /\ last.err = "ValueError"
    /\ index_file.exists
    /\ index # <<>>

\* C11: an insert with a vector of the wrong dimension is rejected and has no
\* side effect: the resumes rows, the chunk rows, the index and the cursor are
\* what they were before the call.
C11_DimensionMismatchNoSideEffects ==
    \A meta \in Metas, in \in Inputs :
        (/\ Len(in.chunks) = Len(in.embeddings)
         /\ \E i \in 1..Len(in.embeddings) : Len(in.embeddings[i]) # VECTOR_DIM)
        => LET r == InsertOutcome(meta, in)
           IN  /\ r.err # "none"
               /\ fetch_meta(r.s, meta.resume_id) = fetch_meta(Store, meta.resume_id)
               /\ r.s.conn = conn
               /\ r.s.index = index
               /\ r.s._next_id = _next_id

\* C12: when the write of the index file fails at the end of an insert or a
\* delete, the call raises and nothing is rolled back: the in-memory index,
\* the committed tables and the cursor are those of the call that succeeds;
\* only the index file keeps its old content.
C12_PersistFailureNoRollback ==
    /\ \A meta \in FewMetas, in \in SmallValidInputs :
         LET ok == insert_resume(Store, meta, in.chunks, in.embeddings, "none")
             r  == insert_resume(Store, meta, in.chunks, in.embeddings,
                                 "write_index_fails")
         IN  ok.err = "none" =>
               /\ r.err = "RuntimeError"
               /\ r.s.index = ok.s.index
               /\ r.s.conn = ok.s.conn
               /\ r.s.db_file = ok.s.db_file
               /\ r.s._next_id = ok.s._next_id
               /\ r.s.index_file = index_file
    /\ \A rid \in IDS :
         LET ok == delete_resume(Store, rid, "none")
             r  == delete_resume(Store, rid, "write_index_fails")
         IN  /\ r.err = "RuntimeError"
             /\ r.s.index = ok.s.index
             /\ r.s.conn = ok.s.conn
             /\ r.s.db_file = ok.s.db_file
             /\ r.s.index_file = index_file

\* An insert raised on the write of the index file: its rows are committed,
\* its vectors are in memory, the file was never written.
C12_Witness ==
    /\ last.op = "insert"
    /\ last.err = "RuntimeError"
    /\ index # <<>>
    /\ ChunkRowIds(db_file.chunks) = IndexIds(index)
    /\ index_file = NoFile

\* C13: search with top_k <= 0 reports an error instead of returning a list,
\* on an empty index and on a non-empty one.
C13_NonPositiveTopKRejected ==
    \A query_vec \in QueryVecs, top_k \in TopKs, engine \in Engines :
        (WellFormed(query_vec) /\ top_k <= 0)
        => SearchOutcome(query_vec, top_k, engine).err # "none"

\* C14: on an index that holds no vector (never populated or emptied by
\* deletes) search with a well-formed query, single or batch, and top_k >= 1
\* returns [] and raises nothing.
C14_EmptyIndexReturnsEmpty ==
    index = <<>> =>
      \A query_vec \in QueryVecs, top_k \in TopKs, engine \in Engines :
          (WellFormed(query_vec) /\ top_k >= 1)
          => LET r == SearchOutcome(query_vec, top_k, engine)
             IN  r.err = "none" /\ r.value = <<>>

\* A batch search on an index emptied by a delete returned [].
C14_Witness ==
    /\ Searched
    /\ index = <<>>
    /\ issued # {}
    /\ WellFormed(result.args.query_vec)
    /\ result.args.query_vec.ndim = 2
    /\ result.args.top_k >= 1
    /\ result.value = <<>>

\* C15: on a non-empty index search with one well-formed query vector and
\* top_k >= 1 returns min(top_k, count()) hits in non-increasing score order,
\* each with the id of a vector of the index, never the id -1.
C15_HitsCountOrderIds ==
    index # <<>> =>
      \A query_vec \in QueryVecs, top_k \in TopKs, engine \in Engines \ {"raises"} :
          (WellFormed(query_vec) /\ query_vec.ndim = 1 /\ top_k >= 1)
          => LET r == SearchOutcome(query_vec, top_k, engine)
             IN  /\ r.err = "none"
                 /\ Len(r.value) = Min(top_k, index_size(Store))
                 /\ \A i, j \in 1..Len(r.value) :
                      i < j => ~Greater(r.value[j][1], r.value[i][1])
                 /\ \A i \in 1..Len(r.value) :
                      /\ r.value[i][2] \in IndexIds(index)
                      /\ r.value[i][2] # NoMatch

\* A search with top_k = 2 on an index of more than two vectors returned two
\* hits, the first with the greater score.
C15_Witness ==
    /\ Searched
    /\ result.args.query_vec.ndim = 1
    /\ result.args.top_k = 2
    /\ index_size(Store) > 2
    /\ Len(result.value) = 2
    /\ Greater(result.value[1][1], result.value[2][1])

\* C16: when index.search raises, search_vectors returns [] and raises
\* nothing, and the store is unchanged; a query of the wrong dimension makes
\* the engine raise by itself.
C16_EngineFailureGivesEmpty ==
    \A query_vec \in QueryVecs, top_k \in TopKs, engine \in Engines :
        (/\ accepted(query_vec)
         /\ engine = "raises" \/ ~WellFormed(query_vec))
        => LET r == SearchOutcome(query_vec, top_k, engine)
           IN  /\ r.err = "none"
               /\ r.value = <<>>
               /\ r.s = Store

\* The engine raised on a well-formed search of a non-empty index.
C16_Witness ==
    /\ Searched
    /\ result.args.engine = "raises"
    /\ WellFormed(result.args.query_vec)
    /\ result.args.top_k >= 1
    /\ index # <<>>
    /\ result.value = <<>>

\* C17: search with a batch returns the hits of every query vector of the
\* batch: each hit of the search for one vector of the batch alone is among
\* the hits returned for the batch.
C17_BatchReturnsHitsForEveryQuery ==
    \A query_vec \in QueryVecs, top_k \in TopKs, engine \in Engines \ {"raises"} :
        (WellFormed(query_vec) /\ query_vec.ndim = 2 /\ top_k >= 1)
        => LET r == SearchOutcome(query_vec, top_k, engine)
           IN  \A j \in 1..Len(query_vec.value) :
                 LET one == SearchOutcome([type  |-> query_vec.type,
                                           ndim  |-> 1,
                                           value |-> query_vec.value[j]],
                                          top_k, engine)
                 IN  \A i \in 1..Len(one.value) :
                         one.value[i] \in Range(r.value)

\* C18: filter_search returns exactly the resume_ids of the stored rows that
\* satisfy every filter given: one of the requested skills occurs, without
\* regard to case, in the serialized skill list; years_experience is at
\* least min_years and at most max_years; the name contains name_pattern.
\* A filter left out constrains nothing.
C18_FilterSearchExact ==
    \A skills \in SkillFilters, min_years \in YearFilters,
       max_years \in YearFilters, name_pattern \in NameFilters :
        search_by_metadata(Store, skills, min_years, max_years,
                           name_pattern).value
        = {r \in get_all_resume_ids(Store) :
             LET row == conn.resumes[r]
             IN  /\ (skills # None /\ skills # Some(<<>>))
                      => \E i \in 1..Len(skills.some) :
                             Occurs(lower(Chars(skills.some[i])),
                                    lower(text_of(row.skills)))
                 /\ min_years # None => row.years_experience >= min_years.some
                 /\ max_years # None => row.years_experience <= max_years.some
                 /\ (name_pattern # None /\ name_pattern # Some(""))
                      => Occurs(Chars(name_pattern.some), Chars(row.name))}

\* C19: get_chunks(D) returns exactly the (vector_id, text) pairs of D's chunk
\* rows, in strictly ascending vector_id order, and each text is the chunk text
\* that insert was given at the position of the vector the index holds under
\* that vector_id.
C19_GetChunksOrderedAndAligned ==
    /\ \A rid \in IDS :
         LET pairs == get_chunks_for_resume(Store, rid)
             rows  == {c \in conn.chunks : c.resume_id = rid}
         IN  /\ Range(pairs) = {<<c.vector_id, c.text>> : c \in rows}
             /\ Len(pairs) = Cardinality(rows)
             /\ \A i, j \in 1..Len(pairs) : i < j => pairs[i][1] < pairs[j][1]
             /\ \A i \in 1..Len(pairs) :
                  \E p \in 1..Len(index) :
                      /\ index[p].id = pairs[i][1]
                      /\ index[p].vec = normalize_row(Embed(pairs[i][2]))
                      /\ \A o \in 1..Len(index) : index[o].id = index[p].id => o = p
    /\ \A meta \in FewMetas, in \in SmallValidInputs :
         LET r == InsertOutcome(meta, in)
             pairs == get_chunks_for_resume(r.s, meta.resume_id)
             vectors == _l2_normalize(in.embeddings)
         IN  r.err = "none" =>
               \A i \in 1..Len(in.chunks) :
                   /\ <<_next_id + i - 1, in.chunks[i]>> \in Range(pairs)
                   /\ \E p \in 1..Len(r.s.index) :
                          /\ r.s.index[p].id = _next_id + i - 1
                          /\ r.s.index[p].vec = vectors[i]

\* get_chunks returned the two chunks of an insert that was not the first.
C19_Witness ==
    /\ result.op = "get_chunks"
    /\ last.err = "none"
    /\ Len(result.value) = 2
    /\ result.value[1][1] > 0
    /\ result.value[1][2] = "t1"
    /\ result.value[2][2] = "t2"

\* C20: the version recorded for a resume_id never decreases: not by an
\* insert, and not by a delete followed by a new insert of the same resume_id.
C20_VersionNeverDecreases ==
    \A meta \in Metas, in \in SmallValidInputs :
        LET rid == meta.resume_id
            r == InsertOutcome(meta, in)
            again == insert_resume(DeleteOutcome(rid).s, meta, in.chunks,
                                   in.embeddings, "none")
        IN  /\ r.err = "none" =>
                  r.s.conn.resumes[rid].version >= conn.resumes[rid].version
            /\ again.err = "none" =>
                  again.s.conn.resumes[rid].version >= conn.resumes[rid].version

\* C21: list_document_ids contains exactly the resume_ids that were inserted
\* and not deleted afterwards (each once: the result has one entry per row
\* and resume_id is the primary key).
C21_ListIsInsertedNotDeleted ==
    get_all_resume_ids(Store) = inserted

\* C22: the index file round-trips.  Opening the file that persist writes
\* gives an index with the same count, the same (vector_id, vector) entries
\* in the same positions and the same result for every search.
C22_IndexFileRoundTrip ==
    LET saved  == save_index(Store)
        opened == startup(saved)
    IN  /\ Len(opened.index) = index_size(Store)
        /\ opened.index = index
        /\ \A c \in SearchCalls :
               LET after  == search_vectors(opened, c.query_vec, c.top_k, c.engine)
                   before == search_vectors(Store, c.query_vec, c.top_k, c.engine)
               IN  /\ after.err = before.err
                   /\ before.err = "none" => after.value = before.value

\* The process was restarted on a file that holds at least two vectors, not
\* all equal, with an id that is not its position.
C22_Witness ==
    /\ last.op = "restart"
    /\ Len(index) >= 2
    /\ index = read_index(index_file)
    /\ \E i \in 1..Len(index) : index[i].id # i - 1
    /\ \E i, j \in 1..Len(index) : index[i].vec # index[j].vec

\* C23: every vector that insert stored in the index has L2 norm 1, the
\* all-zero input vector included: the squares of the components num / den
\* add up to 1.
C23_StoredVectorsHaveUnitNorm ==
    \A meta \in Metas, in \in Inputs :
        LET r == InsertOutcome(meta, in)
        IN  r.err = "none"
            => \A i \in 1..Len(r.s.index) :
                   SumSq(r.s.index[i].vec.num)
                   = r.s.index[i].vec.den * r.s.index[i].vec.den

\* C24: at startup the cursor is the largest vector_id of the committed
\* chunk rows plus one, or 0 when there is none, whatever the index file
\* holds and whatever the cursor of the previous run was.
C24_StartupCursorFromChunkTable ==
    LET ids      == ChunkRowIds(db_file.chunks)
        expected == IF ids = {} THEN 0
                    ELSE (CHOOSE m \in ids : \A x \in ids : x <= m) + 1
    IN  /\ (last.op \in {"start", "restart"} \/ last.err = "crash")
           => _next_id = expected
        /\ \A file \in {index_file, NoFile, write_index(<<>>), write_index(index)},
              previous \in 0..(MaxId + 1) :
               startup([Store EXCEPT !.index_file = file,
                                     !._next_id = previous])._next_id = expected

\* The process came up again after a crash, the index file holds an id at or
\* above the cursor and the chunk rows do not start at 0.
C24_Witness ==
    /\ last.err = "crash"
    /\ db_file.chunks # {}
    /\ 0 \notin ChunkRowIds(db_file.chunks)
    /\ \E i \in 1..Len(index) : index[i].id >= _next_id

\* The search for the vector stored at position p of the index.
SelfQuery(p, top_k, engine) ==
    SearchOutcome(QueryVec("list", 1, index[p].vec.num), top_k, engine)

\* The calls C25 is about: top_k >= 1 and an index.search that answers.
SelfQueryCalls ==
    {c \in [top_k : TopKs, engine : Engines] :
        c.top_k >= 1 /\ c.engine # "raises"}

\* C25 as stated: for a query equal to a vector that is in the index, the
\* first hit is that vector's id and its score is 1.
C25_SelfQueryRanksFirst ==
    \A p \in 1..Len(index), c \in SelfQueryCalls :
        LET r == SelfQuery(p, c.top_k, c.engine)
        IN  /\ r.err = "none"
            /\ r.value # <<>>
            /\ r.value[1][2] = index[p].id
            /\ r.value[1][1].num = r.value[1][1].den

\* C25, amended: for a query equal to a non-zero vector that is in the
\* index, the first hit has score 1 and is the id of an entry that holds
\* this vector: the vector's own id when no other entry holds an equal one.
C25_SelfQueryFindsEqualVector ==
    \A p \in 1..Len(index), c \in SelfQueryCalls :
        SumSq(index[p].vec.num) # 0
        => LET r == SelfQuery(p, c.top_k, c.engine)
           IN  /\ r.err = "none"
               /\ r.value # <<>>
               /\ r.value[1][1].num = r.value[1][1].den
               /\ \E o \in 1..Len(index) :
                      /\ index[o].vec = index[p].vec
                      /\ index[o].id = r.value[1][2]

\* The index holds a zero vector, two equal vectors and a vector equal to
\* no other, which is not the oldest and comes first in its own search.
C25_Witness ==
    /\ last.op = "insert" /\ last.err = "none"
    /\ \E z \in 1..Len(index) : SumSq(index[z].vec.num) = 0
    /\ \E a, b \in 1..Len(index) : a # b /\ index[a].vec = index[b].vec
    /\ \E p \in 2..Len(index) :
           /\ SumSq(index[p].vec.num) # 0
           /\ \A o \in 1..Len(index) : index[o].vec = index[p].vec => o = p
           /\ SelfQuery(p, 2, "ties_oldest_first").value[1][2] = index[p].id

\* C27: no orphaned metadata after a crash.  When the process died inside
\* an insert or a delete and came up again, every committed chunk row's
\* vector_id is in the index loaded from the file.
C27_NoOrphanedMetadataAfterCrash ==
    last.err = "crash" => ChunkRowIds(db_file.chunks) \subseteq IndexIds(index)

\* The index file is written last: a call that changed it has returned
\* without error, its transaction is committed and the file holds the
\* in-memory index; and a call that returned without error has written it.
WrittenLast(r) ==
    /\ r.s.index_file # index_file
       => r.err = "none"
    /\ r.err = "none"
       => /\ r.s.db_file = r.s.conn
          /\ r.s.index_file.exists
          /\ read_index(r.s.index_file) = r.s.index

\* C28: the index file is written after every mutation and only after its
\* commit.  Whatever the environment does to an insert or a delete (nothing,
\* a failed write, a crash before the commit or before the write), the file
\* changes only in a call that committed and returned; after a call that
\* returned without error the file holds the in-memory index.
C28_IndexFileWrittenLast ==
    /\ \A meta \in FewMetas, in \in SmallValidInputs, fault \in Faults :
           WrittenLast(insert_resume(Store, meta, in.chunks, in.embeddings, fault))
    /\ \A rid \in IDS, fault \in Faults :
           WrittenLast(delete_resume(Store, rid, fault))
    /\ (Succeeded("insert") \/ Succeeded("delete"))
       => index_file.exists /\ read_index(index_file) = index /\ db_file = conn

\* An insert returned after an earlier call had raised or died: the file
\* that the earlier call left behind was replaced by the current index.
C28_Witness ==
    /\ Succeeded("insert")
    /\ faults = 1
    /\ Len(index) >= 2
    /\ index_file = write_index(index)

\* C26: no two add calls on the index use overlapping ids within one
\* process run, failed inserts included: the ids of the entries a step adds
\* to the index are not ids that an earlier add call was given.  (No step
\* of this specification removes an entry, so the index holds them all.)
C26_AddCallsUseDisjointIds ==
    [][\A i \in (Len(index) + 1)..Len(index') :
           index'[i].id \notin IndexIds(index)]_vars

\* Thread t is inside a call that has added its vectors to the index.
VectorsAdded(t) == calls[t].pc \in {"line_122", "line_127", "line_128", "line_129"}

\* Thread t is inside a call that has inserted its chunk rows.
ChunkRowsInserted(t) == calls[t].pc \in {"line_127", "line_128", "line_129"}

\* C29: insert validates the arity, adds the vectors, inserts the chunk
\* rows, upserts the document row and persists the index, in this order.
\* A step that writes a chunk row belongs to a call that has added its
\* vectors, a step that writes the document row to a call that has also
\* inserted its chunk rows, and the step that writes the index file is the
\* last of its call.
C29_InsertStepOrder ==
    [][\A t \in Threads :
           calls'[t] # calls[t]
           => /\ conn'.chunks # conn.chunks => VectorsAdded(t)
              /\ conn'.resumes # conn.resumes => ChunkRowsInserted(t)
              /\ index_file' # index_file => calls'[t].pc = "idle"]_vars

\* Thread t has read the cursor into vec_ids and not yet advanced it.
HoldsIds(t) == calls[t].pc \in {"line_120", "line_122", "line_127"}

ZeroQueries ==
    {QueryVec(type, 1, [j \in 1..VECTOR_DIM |-> 0]) : type \in {"list", "ndarray"}}

\* C31: search with an all-zero query and top_k = 5 on a non-empty index
\* does not fail.  The normalised query is the zero vector itself, the call
\* raises nothing and returns min(5, count()) hits, each an id of the index
\* with the finite score 0.
C31_ZeroQueryReturnsHits ==
    index # <<>> =>
      \A query_vec \in ZeroQueries, engine \in Engines \ {"raises"} :
          LET r == SearchOutcome(query_vec, 5, engine)
              q == query_rows(query_vec)[1]
          IN  /\ q.den # 0 /\ q.num = query_vec.value
              /\ r.err = "none"
              /\ Len(r.value) = Min(5, index_size(Store))
              /\ \A i \in 1..Len(r.value) :
                     /\ r.value[i][2] \in IndexIds(index)
                     /\ r.value[i][1].den # 0
                     /\ r.value[i][1].num = 0

\* The all-zero query with top_k = 5 was just answered on an index of at
\* least two vectors with one hit per vector.
C31_Witness ==
    /\ Searched
    /\ result.args.query_vec \in ZeroQueries
    /\ result.args.top_k = 5
    /\ Len(index) >= 2
    /\ Len(result.value) = Len(index)

\* The points of the vector store that belong to a resume.
PointsOf(pts, resume_id) ==
    {i \in 1..Len(pts) : pts[i].payload.resume_id = resume_id}

\* C32: /upsert replaces an existing resume.  After an upsert of a stored
\* resume_id (any answer but 404) the metadata store holds a resume with
\* that id, GridFS its file and the vector store vectors of it: the resume
\* is never left deleted.
C32_UpsertKeepsResume ==
    (response.endpoint = "upsert" /\ response.status # 404)
    => /\ mongo[response.resume_id] # NoDoc
       /\ response.resume_id \in gridfs
       /\ PointsOf(qdrant, response.resume_id) # {}

\* C33: DELETE /resume/{resume_id} answers 404 for a resume_id that is not
\* stored and leaves the stores as they are; for a stored one it answers
\* 200 and removes the document, the file and every vector of the resume.
C33_DeleteAnswers404OrRemoves ==
    \A resume_id \in IDS :
        LET r == main_delete_resume(mongo, gridfs, qdrant, resume_id)
        IN  IF mongo[resume_id] = NoDoc
            THEN /\ r.status = 404
                 /\ r.mongo = mongo /\ r.gridfs = gridfs /\ r.qdrant = qdrant
            ELSE /\ r.status = 200
                 /\ r.mongo[resume_id] = NoDoc
                 /\ resume_id \notin r.gridfs
                 /\ PointsOf(r.qdrant, resume_id) = {}

\* embed_texts is inside its loop, has returned, has raised.
Embedding == embedding.pc = "line_107"

EmbedReturned == embedding.pc = "returned"

EmbedRaised == embedding.pc = "raised"

\* What the next call of the service leads to, for each thing it can do.
NextAttemptAsCoded ==
    \A outcome \in ServiceOutcomes :
        LET n == embed_attempt(embedding, outcome)
        IN  /\ n.tried = embedding.tried + 1
            /\ outcome = "ok"
               => /\ n.pc = "returned"
                  /\ n.value = [i \in 1..Len(embedding.texts) |->
                                    Embed(embedding.texts[i])]
            /\ (outcome # "ok" /\ embedding.tried < 2) => n.pc = "line_107"
            /\ (outcome # "ok" /\ embedding.tried = 2)
               => /\ n.pc = "raised"
                  /\ outcome = "RateLimitError" => n.status = 429
                  /\ outcome = "OpenAIError" => n.status = 502
                  /\ outcome = "Exception" => n.status = 500

\* C34: embed_texts terminates after at most 3 calls of the embedding
\* service.  It never calls more than 3 times; it returns on the first
\* success and raises 429, 502 or 500 by the kind of the third failure; a
\* call that has returned or raised calls the service no more; and a call
\* that is inside the loop ends.
C34_EmbedTextsTerminates ==
    /\ [](/\ embedding.pc # "idle" => embedding.tried <= 3
          /\ Embedding => embedding.tried = embedding.attempt /\ NextAttemptAsCoded
          /\ EmbedRaised => embedding.tried = 3 /\ embedding.status \in {429, 502, 500}
          /\ EmbedReturned => embedding.status = 200)
    /\ [][(EmbedReturned \/ EmbedRaised)
          => embedding' \in {embedding, NoEmbedding} \/ embedding'.tried = 0]_vars
    /\ (Embedding ~> (EmbedReturned \/ EmbedRaised))

\* The third call of the service succeeded after two failures.
C34_Witness ==
    /\ EmbedReturned
    /\ embedding.tried = 3
    /\ embedding.value # <<>>

\* C35: qdrant_db.search_vectors returns each resume_id of the scored
\* points exactly once, with the highest score of its points, by
\* non-increasing score.
C35_UniqueResumesBestScoreSorted ==
    \A query_embedding \in VectorQueries, top_k \in Limits, tie_order \in TieOrders :
        LET scored == qdrant_search(qdrant, query_embedding, top_k, tie_order)
            out    == qdrant_search_vectors(qdrant, query_embedding, top_k, tie_order)
        IN  /\ {out[i].resume_id : i \in 1..Len(out)}
               = {scored[j].payload.resume_id : j \in 1..Len(scored)}
            /\ \A i, k \in 1..Len(out) : out[i].resume_id = out[k].resume_id => i = k
            /\ \A i \in 1..Len(out) :
                   /\ \E j \in PointsOf(scored, out[i].resume_id) :
                          SameScore(scored[j].score, out[i].score)
                   /\ \A j \in PointsOf(scored, out[i].resume_id) :
                          ~Greater(scored[j].score, out[i].score)
            /\ \A i, k \in 1..Len(out) :
                   i < k => ~Greater(out[k].score, out[i].score)

\* A search was answered whose scored points hold two points of one resume
\* with different scores, the better one not first among them, and a point
\* of another resume.
C35_Witness ==
    /\ response.endpoint = "search_vectors"
    /\ Len(response.scored) = 3
    /\ Len(response.value) = 2
    /\ \E i, j \in 1..3 :
           /\ i # j
           /\ response.scored[i].payload.resume_id = response.scored[j].payload.resume_id
           /\ Greater(response.scored[i].score, response.scored[j].score)

====
